---- MODULE Spec2Model ----
(***************************************************************************)
(* The libc shim of ulib/c_libax (src/ulib/c_libax/src/stdlib.c): srand,   *)
(* rand and abort, each a forwarding call into the runtime library         *)
(* (ax_srand, ax_rand_u32, ax_panic).                                      *)
(*                                                                         *)
(* A 32-bit unsigned value is kept as its two 16-bit halves [hi, lo], so   *)
(* that every value of 0..2^32-1 is representable without leaving the      *)
(* checker's integer range; a C int is kept as an integer of               *)
(* -2^31..2^31-1.                                                          *)
(***************************************************************************)
EXTENDS Integers, Sequences, FiniteSets

VARIABLES
    SEED,   \* the runtime's process-wide generator state (owned by the runtime)
    pc,     \* the caller's control: "running", or "halted" once the runtime panicked
    calls   \* history of the shim calls the caller made, in order

vars == <<SEED, pc, calls>>

\* Most shim calls one caller issues in a run.
MaxCalls == 4

Half == 2^16

U32(hi, lo) == [hi |-> hi, lo |-> lo]

\* INT_MIN and INT_MAX of a 32-bit int.
IntMin == (0 - 2^30) - 2^30
IntMax == (2^30 - 1) + 2^30

\* The seeds and generator states the runs draw from: 0, UINT_MAX, and the
\* states whose next output is 0, 2^31-1, 2^31 and 2^32-1.
Seeds ==
    { U32(0, 0), U32(65535, 65535),
      U32(13107, 13107),    \* 0x33333333 -> next output 0x00000000
      U32(58982, 26214),    \* 0xE6666666 -> next output 0x7FFFFFFF
      U32(45875, 13107),    \* 0xB3333333 -> next output 0x80000000
      U32(26214, 26214) }   \* 0x66666666 -> next output 0xFFFFFFFF

\* The generator states a run may start in.
InitStates == { U32(0, 0), U32(58982, 26214), U32(45875, 13107) }

NoValue == "none"

(***************************************************************************)
(* The runtime library.  Its code is outside the shim's source file: a     *)
(* deterministic generator over a 32-bit state whose outputs range over    *)
(* all of 0..2^32-1, and a panic entry that does not return.               *)
(***************************************************************************)

\* ax_srand(s): the generator state after seeding with s.
ax_srand(s) == s

\* The generator state after one draw from state g: g * 5 + 1 (mod 2^32).
ax_rand_u32_state(g) ==
    LET t == g.lo * 5 + 1
    IN  U32((g.hi * 5 + (t \div Half)) % Half, t % Half)

\* ax_rand_u32(): the uint32_t drawn from state g.
ax_rand_u32(g) == ax_rand_u32_state(g)

\* ax_panic() does not return to its caller.
ax_panic_returns == FALSE

(***************************************************************************)
(* The shim.                                                               *)
(***************************************************************************)

\* The `unsigned s` argument passed as ax_srand's 32-bit parameter.
UnsignedToU32(s) == U32(s.hi % Half, s.lo % Half)

\* The conversion as if rand returned a 16-bit int: the high half is lost.
U32ToInt16(u) == IF u.lo < Half \div 2 THEN u.lo ELSE u.lo - Half

\* `return ax_rand_u32();` in a function returning int: the uint32_t is
\* converted to int, reduced modulo 2^32 into INT_MIN..INT_MAX.
U32ToInt(u) ==
    IF u.hi < Half \div 2
    THEN u.hi * Half + u.lo
    ELSE (u.hi - Half) * Half + u.lo

Call(fn, arg, pre, rt, ret, returned) ==
    [fn |-> fn, arg |-> arg, pre |-> pre, rt |-> rt, ret |-> ret,
     returned |-> returned]

RtSrand(s) == [fn |-> "ax_srand", arg |-> s, out |-> NoValue]
RtRand(v) == [fn |-> "ax_rand_u32", arg |-> NoValue, out |-> v]
RtPanic == [fn |-> "ax_panic", arg |-> NoValue, out |-> NoValue]

\* srand as if its parameter were an unsigned short: the seed's high half is lost.
srand_truncating(s) ==
    /\ pc = "running"
    /\ Len(calls) < MaxCalls
    /\ SEED' = ax_srand(U32(0, s.lo % Half))
    /\ calls' = Append(calls,
            Call("srand", s, SEED, <<RtSrand(U32(0, s.lo % Half))>>, NoValue, TRUE))
    /\ UNCHANGED pc

\* srand as if it validated its argument and faulted on a zero seed.
srand_rejecting_zero(s) ==
    /\ pc = "running"
    /\ Len(calls) < MaxCalls
    /\ IF s = U32(0, 0)
       THEN /\ pc' = "halted"
            /\ calls' = Append(calls,
                    Call("srand", s, SEED, <<RtPanic>>, NoValue, FALSE))
            /\ UNCHANGED SEED
       ELSE /\ SEED' = ax_srand(UnsignedToU32(s))
            /\ calls' = Append(calls,
                    Call("srand", s, SEED, <<RtSrand(UnsignedToU32(s))>>,
                         NoValue, TRUE))
            /\ UNCHANGED pc

\* void srand(unsigned s) { ax_srand(s); }
srand(s) ==
    /\ pc = "running"
    /\ Len(calls) < MaxCalls
    /\ SEED' = ax_srand(UnsignedToU32(s))
    /\ calls' = Append(calls,
            Call("srand", s, SEED, <<RtSrand(UnsignedToU32(s))>>, NoValue, TRUE))
    /\ UNCHANGED pc

\* rand as if it drew twice from the runtime and returned the second draw.
rand_twice ==
    /\ pc = "running"
    /\ Len(calls) < MaxCalls
    /\ SEED' = ax_rand_u32_state(ax_rand_u32_state(SEED))
    /\ calls' = Append(calls,
            Call("rand", NoValue, SEED,
                 <<RtRand(ax_rand_u32(SEED)),
                   RtRand(ax_rand_u32(ax_rand_u32_state(SEED)))>>,
                 U32ToInt(ax_rand_u32(ax_rand_u32_state(SEED))), TRUE))
    /\ UNCHANGED pc

\* rand as if it returned a local that one path leaves unset (here read as 0
\* or as the draw).
rand_uninit ==
    /\ pc = "running"
    /\ Len(calls) < MaxCalls
    /\ SEED' = ax_rand_u32_state(SEED)
    /\ \E r \in {U32ToInt(ax_rand_u32(SEED)), 0} :
          calls' = Append(calls,
              Call("rand", NoValue, SEED, <<RtRand(ax_rand_u32(SEED))>>, r, TRUE))
    /\ UNCHANGED pc

\* int rand(void) { return ax_rand_u32(); }
rand ==
    /\ pc = "running"
    /\ Len(calls) < MaxCalls
    /\ SEED' = ax_rand_u32_state(SEED)
    /\ calls' = Append(calls,
            Call("rand", NoValue, SEED, <<RtRand(ax_rand_u32(SEED))>>,
                 U32ToInt(ax_rand_u32(SEED)), TRUE))
    /\ UNCHANGED pc

\* abort as if it returned without calling the runtime's panic entry.
abort_returns ==
    /\ pc = "running"
    /\ Len(calls) < MaxCalls
    /\ calls' = Append(calls, Call("abort", NoValue, SEED, <<>>, NoValue, TRUE))
    /\ UNCHANGED <<SEED, pc>>

\* abort as if it reset the generator before panicking.
abort_reseeds ==
    /\ pc = "running"
    /\ Len(calls) < MaxCalls
    /\ SEED' = ax_srand(U32(0, 1))
    /\ pc' = "halted"
    /\ calls' = Append(calls,
            Call("abort", NoValue, SEED, <<RtSrand(U32(0, 1)), RtPanic>>,
                 NoValue, FALSE))

\* _Noreturn void abort(void) { ax_panic(); __builtin_unreachable(); }
\* Were ax_panic to return, control would run into __builtin_unreachable():
\* undefined, so either outcome.
abort ==
    /\ pc = "running"
    /\ Len(calls) < MaxCalls
    /\ \E ret \in (IF ax_panic_returns THEN BOOLEAN ELSE {FALSE}) :
          /\ pc' = IF ret THEN "running" ELSE "halted"
          /\ calls' = Append(calls,
                Call("abort", NoValue, SEED, <<RtPanic>>, NoValue, ret))
    /\ UNCHANGED SEED

Init ==
    /\ SEED \in InitStates
    /\ pc = "running"
    /\ calls = <<>>

Next ==
    \/ \E s \in Seeds : srand(s)
    \/ rand
    \/ abort

Spec == Init /\ [][Next]_vars

(***************************************************************************)
(* Vocabulary of the properties.                                           *)
(***************************************************************************)

\* The 32-bit word that holds the int i (two's complement).
IntToU32(i) == U32((i \div Half) % Half, i % Half)

\* The unsigned 32-bit value u and the int i are the same number.
NumEq(u, i) == (i \div Half) = u.hi /\ (i % Half) = u.lo

\* The generator state right after the i-th shim call.
Post(i) == IF i < Len(calls) THEN calls[i + 1].pre ELSE SEED

CallsOf(fn) == { i \in DOMAIN calls : calls[i].fn = fn }

\* The generator state after the runtime calls rt, made from state g.
RECURSIVE RtApply(_, _)
RtApply(g, rt) ==
    IF rt = <<>> THEN g
    ELSE LET c == Head(rt)
         IN  RtApply(IF c.fn = "ax_srand" THEN ax_srand(c.arg)
                     ELSE IF c.fn = "ax_rand_u32" THEN ax_rand_u32_state(g)
                     ELSE g,
                     Tail(rt))

\* What a caller observes from the inputs `in` issued from generator state g,
\* as a function of g and `in` alone.
RECURSIVE Replay(_, _)
Replay(g, in) ==
    IF in = <<>> THEN <<>>
    ELSE LET c == Head(in)
         IN  IF c[1] = "srand"
             THEN <<NoValue>> \o Replay(ax_srand(c[2]), Tail(in))
             ELSE IF c[1] = "rand"
             THEN <<U32ToInt(ax_rand_u32(g))>>
                      \o Replay(ax_rand_u32_state(g), Tail(in))
             ELSE <<NoValue>>

Inputs == [i \in 1..Len(calls) |-> <<calls[i].fn, calls[i].arg>>]
Observed == [i \in 1..Len(calls) |-> calls[i].ret]
InitState == IF calls = <<>> THEN SEED ELSE calls[1].pre

(***************************************************************************)
(* The claims.                                                             *)
(***************************************************************************)

\* C1: srand(S) followed by rand() yields the same value as ax_srand(S)
\* followed by ax_rand_u32() called directly from the same runtime state.
C1_PassThroughEquality ==
    \A i \in CallsOf("rand") :
        (i > 1 /\ calls[i - 1].fn = "srand")
            => NumEq(ax_rand_u32(RtApply(calls[i - 1].pre,
                                         <<RtSrand(calls[i - 1].arg)>>)),
                     calls[i].ret)

\* C2: the value the caller of rand() receives is numerically equal to the
\* 32-bit unsigned value the runtime's ax_rand_u32() produced.
C2_RandVerbatim ==
    \A i \in CallsOf("rand") :
        \A k \in DOMAIN calls[i].rt : NumEq(calls[i].rt[k].out, calls[i].ret)

\* C3: the value rand() returns fits in 32 bits, holds the runtime's result
\* bit for bit, and distinct runtime results give distinct returned values.
C3_RandLosesNoInformation ==
    \A i \in CallsOf("rand") :
        /\ IntMin <= calls[i].ret /\ calls[i].ret <= IntMax
        /\ IntToU32(calls[i].ret) = calls[i].rt[Len(calls[i].rt)].out
        /\ \A j \in CallsOf("rand") :
              calls[i].rt[Len(calls[i].rt)].out # calls[j].rt[Len(calls[j].rt)].out
                  => calls[i].ret # calls[j].ret

\* Two rand() calls whose runtime results differ only above bit 15, one of
\* them with bit 31 set.
C3_Witness ==
    \E i, j \in CallsOf("rand") :
        /\ calls[i].rt[1].out.hi >= Half \div 2
        /\ calls[i].rt[1].out.hi # calls[j].rt[1].out.hi
        /\ calls[i].rt[1].out.lo = calls[j].rt[1].out.lo

\* C4: abort() never returns to its caller: every abort call is unreturned,
\* it is the last call the caller made, and the caller is halted.
C4_AbortNeverReturns ==
    \A i \in CallsOf("abort") :
        /\ ~calls[i].returned
        /\ i = Len(calls)
        /\ pc = "halted"

\* abort() was called while the caller had further calls to make.
C4_Witness ==
    /\ CallsOf("abort") # {}
    /\ Len(calls) < MaxCalls
    /\ ~(ENABLED Next)

\* C5: the int rand() returns is non-negative (0..RAND_MAX) for every value
\* the runtime can produce.
C5_RandNonNegative ==
    \A i \in CallsOf("rand") : 0 <= calls[i].ret /\ calls[i].ret <= IntMax

\* C6: srand(s) calls ax_srand exactly once, with exactly s, for every s
\* including 0 and the maximum, and returns.
C6_SrandForwardsUnchanged ==
    \A i \in CallsOf("srand") :
        /\ calls[i].rt = <<RtSrand(calls[i].arg)>>
        /\ Post(i) = ax_srand(calls[i].arg)
        /\ calls[i].returned

\* srand(0) and srand(UINT_MAX) were both called.
C6_Witness ==
    /\ \E i \in CallsOf("srand") : calls[i].arg = U32(0, 0)
    /\ \E i \in CallsOf("srand") : calls[i].arg = U32(Half - 1, Half - 1)

\* C7: every srand and rand call returns to its caller, without reaching
\* the runtime's panic entry point and leaving the caller running.
C7_SrandRandCannotFail ==
    /\ \A i \in CallsOf("srand") \cup CallsOf("rand") :
          /\ calls[i].returned
          /\ \A k \in DOMAIN calls[i].rt : calls[i].rt[k].fn # "ax_panic"
          /\ i = Len(calls) => pc = "running"
    /\ pc = "halted" => (calls # <<>> /\ calls[Len(calls)].fn = "abort")

\* srand(0), srand(UINT_MAX) and a rand() with bit 31 set have all returned.
C7_Witness ==
    /\ \E i \in CallsOf("srand") : calls[i].arg = U32(0, 0)
    /\ \E i \in CallsOf("srand") : calls[i].arg = U32(Half - 1, Half - 1)
    /\ \E i \in CallsOf("rand") : calls[i].ret < 0
    /\ pc = "running"

C9_ShimFrame ==
    \A i \in DOMAIN calls :
        /\ Post(i) = RtApply(calls[i].pre, calls[i].rt)
        /\ calls[i].fn = "srand"
              => \A k \in DOMAIN calls[i].rt : calls[i].rt[k].fn = "ax_srand"
        /\ calls[i].fn = "rand"
              => \A k \in DOMAIN calls[i].rt : calls[i].rt[k].fn = "ax_rand_u32"
        /\ calls[i].fn = "abort"
              => /\ \A k \in DOMAIN calls[i].rt : calls[i].rt[k].fn = "ax_panic"
                 /\ Post(i) = calls[i].pre

\* A run with a srand, a rand and an abort, the generator having left its
\* initial state.
C9_Witness ==
    /\ CallsOf("srand") # {}
    /\ CallsOf("rand") # {}
    /\ CallsOf("abort") # {}
    /\ SEED # InitState

\* C10: what a caller observes is a function of the initial generator state
\* and the sequence of calls alone, and every abort() halts the caller
\* through ax_panic.
C10_Deterministic ==
    /\ Observed = Replay(InitState, Inputs)
    /\ SEED = RtApply(InitState,
                      [i \in 1..Len(calls) |->
                          IF calls[i].fn = "srand" THEN RtSrand(calls[i].arg)
                          ELSE IF calls[i].fn = "rand" THEN RtRand(NoValue)
                          ELSE RtPanic])
    /\ \A i \in CallsOf("abort") :
          calls[i].rt = <<RtPanic>> /\ pc = "halted"

\* Two rand() calls around a reseed, then an abort.
C10_Witness ==
    /\ Len(calls) = MaxCalls
    /\ calls[1].fn = "rand"
    /\ calls[2].fn = "srand"
    /\ calls[3].fn = "rand"
    /\ calls[Len(calls)].fn = "abort"

====
